---- MODULE Spec2Model ----
(***************************************************************************)
(* Model of videoSDK.ino: an ESP32 sketch that calibrates the DC offset of *)
(* an analog microphone, polls it against an amplitude threshold and, on a *)
(* trigger, records a fixed-length buffer, stores it on SPIFFS and         *)
(* publishes an MQTT alert.  The sketch is one thread: setup() and then    *)
(* loop() for ever.  `pc' is the position of that thread; a call of        *)
(* delay(n) parks the thread until `delayLeft' has run down to 0.          *)
(***************************************************************************)
EXTENDS Integers, Sequences, FiniteSets, TLC

\* ------------------------------------------------------------ bounds
\* Samples per second.  The sketch is built with 8000 (videoSDK.ino:19);
\* the model keeps the way every other quantity is derived from it.
SAMPLE_RATE == 1
\* The environment produces at most this many above-threshold poll samples.
MaxEvents == 2
\* Horizon of the wall clock, in seconds after setup() has returned.
MaxSec == 6
\* The longest stretch of a delay() that passes in one step, in ms.
TickMs == 1000

\* mutant of COOLDOWN_MS: a shorter cooldown
COOLDOWN_MS_short == 2000 \div 4

\* ------------------------------------------------------------ configuration
RECORD_DURATION_SECONDS == 3
AMPLITUDE_THRESHOLD == 500
\* mutant of GAIN_FACTOR: twice the gain
GAIN_FACTOR_doubled == 8 * 2

GAIN_FACTOR == 8
CAL_SAMPLES == 1024
CAL_DELAY_MS == 1
COOLDOWN_MS == 2000
LOOP_DELAY_MS == 1
MQTT_RETRY_MS == 5000
WIFI_RETRY_MS == 500
BOOT_DELAY_MS == 2000
HALT_DELAY_MS == 1000
ADC_MAX == 4095
AMPLITUDE_SCALE == 2048

TOTAL_SAMPLES == SAMPLE_RATE * RECORD_DURATION_SECONDS
\* round(1000000.0 / SAMPLE_RATE), halves away from zero
SAMPLING_PERIOD_US == (2000000 + SAMPLE_RATE) \div (2 * SAMPLE_RATE)

\* ------------------------------------------------------------ helpers
Abs(x) == IF x < 0 THEN -x ELSE x
Min(a, b) == IF a < b THEN a ELSE b

\* Microsecond times.  micros() and nextSampleTime are unsigned long, 32 bits
\* wide on the ESP32, and 2^32 is beyond the integers TLC computes with, so a
\* time of t microseconds is held as the pair << t \div 2^16, t % 2^16 >>.
Limb == 65536
Us(n) == << n \div Limb, n % Limb >>
UsNorm(h, l) == << h + (l \div Limb), l % Limb >>
UsAdd(a, b) == UsNorm(a[1] + b[1], a[2] + b[2])
UsSub(a, b) == UsNorm(a[1] - b[1], a[2] - b[2])
UsLess(a, b) == a[1] < b[1] \/ (a[1] = b[1] /\ a[2] < b[2])
UsTimes(k, a) == UsNorm(k * a[1], k * a[2])
\* 2^32 microseconds, and the truncation of a time to an unsigned long
TwoTo32 == << Limb, 0 >>
U32(a) == << a[1] % Limb, a[2] >>
\* the value of sampleAt while no sample has been taken
NoSampleYet == Us(-1)

\* conversion of an int to int16_t: reduction modulo 2^16 into -32768..32767
Int16(x) == ((x + 32768) % 65536) - 32768

\* a slot of a malloc'ed buffer that has not been written (no int16 value)
UNINIT == 65536
NoBuffer == <<>>
NoName == <<"none", 0>>
NoSignal == [lo |-> 0, hi |-> 0, period |-> 1, high |-> 0]

\* mutant of FileName: the name carries the minute only
FileNameMinute(t) == <<"recording", t \div 60>>

\* "/recording_%Y%m%d_%H%M%S.bin" of the wall-clock second t
FileName(t) == <<"recording", t>>
OtherFile == <<"config", 0>>
IsRecordingName(n) == n[1] = "recording"
EndsWithBin(n) == n[1] = "recording"

\* The analog input.  A signal is a periodic wave: the reading taken at
\* index i is hi during the first `high' slots of every period and lo
\* otherwise.
Wave(s, i) == IF (i % s.period) < s.high THEN s.hi ELSE s.lo

\* what the microphone may deliver while the offset is calibrated
CalSignals ==
    { [lo |-> 2048, hi |-> 2048, period |-> 1, high |-> 0],
      [lo |-> 2047, hi |-> 2048, period |-> 2, high |-> 1],
      [lo |-> 2047, hi |-> 2048, period |-> 4, high |-> 3],
      [lo |-> 2047, hi |-> 2048, period |-> 4, high |-> 1],
      [lo |-> 0, hi |-> 0, period |-> 1, high |-> 0],
      [lo |-> ADC_MAX, hi |-> ADC_MAX, period |-> 1, high |-> 0] }

\* what it may deliver during a capture
CaptureSignals ==
    { [lo |-> 0, hi |-> ADC_MAX, period |-> 2, high |-> 1],
      [lo |-> 2040, hi |-> 2600, period |-> 3, high |-> 1] }

\* how many of the TOTAL_SAMPLES samples one file.write may store: all of
\* them, or fewer when the flash is full (its return value is not tested)
WriteCounts == {TOTAL_SAMPLES - 1, TOTAL_SAMPLES}

\* single readings offered to the idle poll
PollSamples == {500, 501, 1547, 1548, 2400, 2548, 2549, 2600, 3594, 3595}

VARIABLES
    pc,               \* position of the sketch
    delayLeft,        \* ms left of the delay() in progress, 0 when none
    nowSec,           \* time(nullptr), counted from the return of setup()
    mqttConnected,    \* mqttClient.connected()
    isRecording,      \* the busy flag
    adc_dc_offset,    \* the calibrated DC offset
    signal,           \* the wave on the ADC pin during calibration/capture
    calI, calSum,     \* calibrateDCOffset: i and sum
    adc_value,        \* loop: the sample of the current poll, -1 when none
    triggerAmplitude, \* recordAndAlert: its argument
    filename,         \* recordAndAlert: filename
    buffer,           \* recordAndAlert: the malloc'ed block, <<>> when null
    recI,             \* recordAndAlert: i of the sampling loop
    heapLive,         \* number of capture buffers allocated and not freed
    files,            \* SPIFFS: file name -> contents
    mqttOut,          \* the alert handed to mqttClient.publish, if any
    httpResp,         \* the response handleClient has just sent, if any
    events,           \* number of triggers so far (capped at MaxEvents)
    calRuns,          \* history: completed runs of calibrateDCOffset
    polls,            \* history: whether the idle loop has polled yet
    sinceReturn,      \* history: ms since recordAndAlert last returned, -1 if never
    outcome,          \* history: how the last recordAndAlert ended
    evMallocs, evReads, evStores, evAlerts, \* history: per-trigger counts
    mounted,          \* SPIFFS.begin: "no" before it, then "ok" or "failed"
    captured,         \* history: the buffer as the sampling loop left it
    usStart,          \* micros() when recordAndAlert set nextSampleTime
    elapsedUs,        \* history: microseconds passed since then
    nextSampleTime,   \* recordAndAlert: nextSampleTime (unsigned long, 32 bits)
    sampleAt          \* history: elapsedUs at the latest reading

vars == << pc, delayLeft, nowSec, mqttConnected, isRecording, adc_dc_offset,
           signal, calI, calSum, adc_value, triggerAmplitude, filename,
           buffer, recI, heapLive, files, mqttOut, httpResp, events,
           calRuns, polls, sinceReturn, outcome,
           evMallocs, evReads, evStores, evAlerts,
           mounted, captured, usStart, elapsedUs, nextSampleTime, sampleAt >>

NoAlert == [sent |-> FALSE, file |-> NoName, num |-> 0, den |-> 1, ok |-> FALSE]
NoResp == [code |-> 0, body |-> <<>>, listing |-> {}]

SetupPcs == {"S_boot", "S_wifi", "S_time", "S_web", "S_mount", "S_halt",
             "S_clear", "S_cal_begin", "S_cal", "S_cal_done"}
RecordPcs == {"R_entry", "R_sample", "R_write", "R_free", "R_publish"}

\* files left on the flash by an earlier boot
InitFiles == (FileName(0) :> <<7, 7>>) @@ (OtherFile :> <<1>>)

Init ==
    /\ pc = "S_boot"
    /\ delayLeft = 0
    /\ nowSec = 0
    /\ mqttConnected = FALSE
    /\ isRecording = FALSE
    /\ adc_dc_offset = 0
    /\ signal = NoSignal
    /\ calI = 0
    /\ calSum = 0
    /\ adc_value = -1
    /\ triggerAmplitude = 0
    /\ filename = NoName
    /\ buffer = NoBuffer
    /\ recI = 0
    /\ heapLive = 0
    /\ files = InitFiles
    /\ mqttOut = NoAlert
    /\ httpResp = NoResp
    /\ events = 0
    /\ calRuns = 0
    /\ polls = FALSE
    /\ sinceReturn = -1
    /\ outcome = "none"
    /\ evMallocs = 0
    /\ evReads = 0
    /\ evStores = 0
    /\ evAlerts = 0
    /\ mounted = "no"
    /\ captured = NoBuffer
    /\ usStart = Us(0)
    /\ elapsedUs = Us(0)
    /\ nextSampleTime = Us(0)
    /\ sampleAt = NoSampleYet

\* ------------------------------------------------------------ frames
auxVars == << mounted, captured >>
usVars == << usStart, elapsedUs, nextSampleTime, sampleAt >>
calVars == << signal, calI, calSum >>
recVars == << triggerAmplitude, filename, buffer, recI, heapLive >>
evVars == << evMallocs, evReads, evStores, evAlerts >>
ioVars == << mqttOut, httpResp >>
loopVars == << mqttConnected, isRecording, adc_value, events, polls,
               sinceReturn, outcome >>

\* ------------------------------------------------------------ time
\* The wall clock after `ms' more milliseconds: the count of whole seconds
\* grows by at least ms / 1000, and by one more when a second boundary
\* falls into the interval.  The count is taken from the return of setup()
\* and is not followed beyond MaxSec.
ClockAfter(ms) ==
    IF pc \in SetupPcs THEN {nowSec}
    ELSE { Min(MaxSec, nowSec + (ms \div 1000) + c) : c \in {0, 1} }

\* Part of a delay() passes.
Tick ==
    /\ delayLeft > 0
    /\ LET e == Min(TickMs, delayLeft) IN
         /\ delayLeft' = delayLeft - e
         /\ nowSec' \in ClockAfter(e)
         /\ sinceReturn' = IF sinceReturn < 0 THEN sinceReturn
                           ELSE Min(2000, sinceReturn + e)
    /\ UNCHANGED << pc, mqttConnected, isRecording, adc_dc_offset, adc_value,
                    files, events, calRuns, polls, outcome >>
    /\ UNCHANGED << calVars, recVars, evVars, ioVars >>
    /\ UNCHANGED << auxVars, usVars >>

\* ------------------------------------------------------------ setup()
\* Serial.begin; delay(2000); device id and topic
Boot ==
    /\ pc = "S_boot" /\ delayLeft = 0
    /\ delayLeft' = BOOT_DELAY_MS
    /\ pc' = "S_wifi"
    /\ UNCHANGED << nowSec, adc_dc_offset, files, calRuns >>
    /\ UNCHANGED << loopVars, calVars, recVars, evVars, ioVars >>
    /\ UNCHANGED << auxVars, usVars >>

\* connectWiFi: one test of WiFi.status() and, if not connected, delay(500)
ConnectWiFi ==
    /\ pc = "S_wifi" /\ delayLeft = 0
    /\ \E connected \in BOOLEAN :
         IF connected THEN pc' = "S_time" /\ delayLeft' = 0
         ELSE pc' = "S_wifi" /\ delayLeft' = WIFI_RETRY_MS
    /\ UNCHANGED << nowSec, adc_dc_offset, files, calRuns >>
    /\ UNCHANGED << loopVars, calVars, recVars, evVars, ioVars >>
    /\ UNCHANGED << auxVars, usVars >>

\* initTime: one test of time(nullptr) < 10000 and, if not synced, delay(500)
InitTime ==
    /\ pc = "S_time" /\ delayLeft = 0
    /\ \E synced \in BOOLEAN :
         IF synced THEN pc' = "S_web" /\ delayLeft' = 0
         ELSE pc' = "S_time" /\ delayLeft' = WIFI_RETRY_MS
    /\ UNCHANGED << nowSec, adc_dc_offset, files, calRuns >>
    /\ UNCHANGED << loopVars, calVars, recVars, evVars, ioVars >>
    /\ UNCHANGED << auxVars, usVars >>

\* setupWebServer; mqttClient.setServer; adc1_config_*
SetupWebServer ==
    /\ pc = "S_web" /\ delayLeft = 0
    /\ pc' = "S_mount"
    /\ UNCHANGED << delayLeft, nowSec, adc_dc_offset, files, calRuns >>
    /\ UNCHANGED << loopVars, calVars, recVars, evVars, ioVars >>
    /\ UNCHANGED << auxVars, usVars >>

\* mutant of AfterMount: the result of SPIFFS.begin is ignored
AfterMountIgnored(ok) == "S_clear"

\* where setup() continues after SPIFFS.begin(true)
AfterMount(ok) == IF ok THEN "S_clear" ELSE "S_halt"

MountSPIFFS ==
    /\ pc = "S_mount" /\ delayLeft = 0
    /\ \E ok \in BOOLEAN :
         /\ pc' = AfterMount(ok)
         /\ mounted' = IF ok THEN "ok" ELSE "failed"
    /\ UNCHANGED << delayLeft, nowSec, adc_dc_offset, files, calRuns >>
    /\ UNCHANGED << loopVars, calVars, recVars, evVars, ioVars >>
    /\ UNCHANGED << captured, usVars >>

\* while (1) delay(1000);
Halt ==
    /\ pc = "S_halt" /\ delayLeft = 0
    /\ delayLeft' = HALT_DELAY_MS
    /\ UNCHANGED << pc, nowSec, adc_dc_offset, files, calRuns >>
    /\ UNCHANGED << loopVars, calVars, recVars, evVars, ioVars >>
    /\ UNCHANGED << auxVars, usVars >>

\* clearOldRecordings: every file whose name starts with "recording" is removed
ClearOldRecordings ==
    /\ pc = "S_clear" /\ delayLeft = 0
    /\ files' = [n \in {m \in DOMAIN files : ~IsRecordingName(m)} |-> files[n]]
    /\ pc' = "S_cal_begin"
    /\ UNCHANGED << delayLeft, nowSec, adc_dc_offset, calRuns >>
    /\ UNCHANGED << loopVars, calVars, recVars, evVars, ioVars >>
    /\ UNCHANGED << auxVars, usVars >>

\* calibrateDCOffset: long sum = 0; i = 0
CalibrateBegin ==
    /\ pc = "S_cal_begin" /\ delayLeft = 0
    /\ \E s \in CalSignals : signal' = s
    /\ calI' = 0
    /\ calSum' = 0
    /\ pc' = "S_cal"
    /\ UNCHANGED << delayLeft, nowSec, adc_dc_offset, files, calRuns >>
    /\ UNCHANGED << loopVars, recVars, evVars, ioVars >>
    /\ UNCHANGED << auxVars, usVars >>

\* the condition of the calibration loop
CalibrationContinues(i) == i < CAL_SAMPLES

\* sum += adc1_get_raw(ADC_CHANNEL); delay(1); i++
CalibrateSample ==
    /\ pc = "S_cal" /\ delayLeft = 0
    /\ CalibrationContinues(calI)
    /\ calSum' = calSum + Wave(signal, calI)
    /\ calI' = calI + 1
    /\ delayLeft' = CAL_DELAY_MS
    /\ UNCHANGED << pc, nowSec, adc_dc_offset, files, calRuns, signal >>
    /\ UNCHANGED << loopVars, recVars, evVars, ioVars >>
    /\ UNCHANGED << auxVars, usVars >>

\* mutant of MeanOf: the quotient rounded to the nearest integer
MeanOfRounded(sum) == (sum + 512) \div 1024

\* sum / 1024 on a non-negative long: the quotient truncated
MeanOf(sum) == sum \div 1024

\* adc_dc_offset = sum / 1024
CalibrateEnd ==
    /\ pc = "S_cal" /\ delayLeft = 0
    /\ ~CalibrationContinues(calI)
    /\ adc_dc_offset' = MeanOf(calSum)
    /\ calRuns' = calRuns + 1
    /\ pc' = "S_cal_done"
    /\ UNCHANGED << delayLeft, nowSec, files >>
    /\ UNCHANGED << loopVars, calVars, recVars, evVars, ioVars >>
    /\ UNCHANGED << auxVars, usVars >>

\* calibrateDCOffset and setup() return; loop() is entered
Ready ==
    /\ pc = "S_cal_done" /\ delayLeft = 0
    /\ signal' = NoSignal
    /\ calI' = 0
    /\ calSum' = 0
    /\ pc' = "L_top"
    /\ UNCHANGED << delayLeft, nowSec, adc_dc_offset, files, calRuns >>
    /\ UNCHANGED << loopVars, recVars, evVars, ioVars >>
    /\ UNCHANGED << auxVars, usVars >>

\* ------------------------------------------------------------ environment
\* The broker or the network drops the MQTT connection.
BrokerDrop ==
    /\ pc \notin SetupPcs
    /\ mqttConnected
    /\ mqttConnected' = FALSE
    /\ UNCHANGED << pc, delayLeft, nowSec, isRecording, adc_dc_offset,
                    adc_value, files, events, calRuns, polls, sinceReturn,
                    outcome >>
    /\ UNCHANGED << calVars, recVars, evVars, ioVars >>
    /\ UNCHANGED << auxVars, usVars >>

\* ------------------------------------------------------------ loop()
\* if (!mqttClient.connected()) connectMQTT();
LoopTop ==
    /\ pc = "L_top" /\ delayLeft = 0
    /\ pc' = IF ~mqttConnected THEN "M_connect" ELSE "L_mqtt"
    /\ UNCHANGED << delayLeft, nowSec, adc_dc_offset, files, calRuns >>
    /\ UNCHANGED << loopVars, calVars, recVars, evVars, ioVars >>
    /\ UNCHANGED << auxVars, usVars >>

\* connectMQTT: one round of while (!mqttClient.connected()): a connect
\* attempt and, if it failed, delay(5000) before the condition is tested again
ConnectMQTT ==
    /\ pc = "M_connect" /\ delayLeft = 0
    /\ IF mqttConnected
       THEN pc' = "L_mqtt" /\ UNCHANGED << mqttConnected, delayLeft >>
       ELSE \E ok \in BOOLEAN :
              IF ok THEN /\ mqttConnected' = TRUE
                         /\ pc' = "L_mqtt"
                         /\ delayLeft' = 0
              ELSE /\ mqttConnected' = FALSE
                   /\ pc' = "M_connect"
                   /\ delayLeft' = MQTT_RETRY_MS
    /\ UNCHANGED << nowSec, isRecording, adc_dc_offset, adc_value, files,
                    events, calRuns, polls, sinceReturn, outcome >>
    /\ UNCHANGED << calVars, recVars, evVars, ioVars >>
    /\ UNCHANGED << auxVars, usVars >>

\* mqttClient.loop()
MqttLoop ==
    /\ pc = "L_mqtt" /\ delayLeft = 0
    /\ pc' = "L_handle"
    /\ UNCHANGED << delayLeft, nowSec, adc_dc_offset, files, calRuns >>
    /\ UNCHANGED << loopVars, calVars, recVars, evVars, ioVars >>
    /\ UNCHANGED << auxVars, usVars >>

\* the requests a web client may have pending
Requests ==
    {<<"none", NoName>>, <<"list", NoName>>}
        \cup { <<"get", n>> : n \in DOMAIN files \cup {FileName(MaxSec)} }

\* the "/" handler and the onNotFound handler
Respond(req) ==
    IF req[1] = "none" THEN NoResp
    ELSE IF req[1] = "list"
    THEN [code |-> 200, body |-> <<>>,
          listing |-> { <<n, 2 * Len(files[n])>> :
                          n \in {m \in DOMAIN files : EndsWithBin(m)} }]
    ELSE IF req[2] \in DOMAIN files
    THEN [code |-> 200, body |-> files[req[2]], listing |-> {}]
    ELSE [code |-> 404, body |-> <<>>, listing |-> {}]

\* server.handleClient()
HandleClient ==
    /\ pc = "L_handle" /\ delayLeft = 0
    /\ \E req \in Requests : httpResp' = Respond(req)
    /\ pc' = "L_poll"
    /\ UNCHANGED << delayLeft, nowSec, adc_dc_offset, files, calRuns, mqttOut >>
    /\ UNCHANGED << loopVars, calVars, recVars, evVars >>
    /\ UNCHANGED << auxVars, usVars >>

\* int amplitude = abs(adc_value - adc_dc_offset)
Amplitude(raw, offset) == Abs(raw - offset)

\* mutant of Triggered: the comparison written >=
TriggeredAtThreshold(amplitude) == amplitude >= AMPLITUDE_THRESHOLD

\* if (amplitude > AMPLITUDE_THRESHOLD)
Triggered(amplitude) == amplitude > AMPLITUDE_THRESHOLD

\* mutant of LockValue: the lock is not taken
LockNotTaken == FALSE

\* isRecording = true;  // Lock
LockValue == TRUE

\* The readings the microphone may deliver to a poll: any of PollSamples
\* while the environment still has loud events to produce, quiet ones after.
PollInputs ==
    IF events < MaxEvents /\ nowSec < MaxSec THEN PollSamples
    ELSE { r \in PollSamples : Abs(r - adc_dc_offset) <= AMPLITUDE_THRESHOLD }

\* if (!isRecording) { read, compare; on a trigger: lock and call recordAndAlert }
Poll ==
    /\ pc = "L_poll" /\ delayLeft = 0
    /\ httpResp' = NoResp
    /\ IF ~isRecording
       THEN \E raw \in PollInputs :
              /\ adc_value' = raw
              /\ polls' = TRUE
              /\ IF Triggered(Amplitude(raw, adc_dc_offset))
                 THEN /\ isRecording' = LockValue
                      /\ triggerAmplitude' = Amplitude(raw, adc_dc_offset)
                      /\ pc' = "R_entry"
                      /\ events' = Min(MaxEvents, events + 1)
                      /\ outcome' = "running"
                      /\ evMallocs' = 0 /\ evReads' = 0
                      /\ evStores' = 0 /\ evAlerts' = 0
                 ELSE /\ pc' = "L_delay"
                      /\ UNCHANGED << isRecording, triggerAmplitude, events,
                                      outcome, evVars >>
       ELSE /\ pc' = "L_delay"
            /\ UNCHANGED << adc_value, polls, isRecording, triggerAmplitude,
                            events, outcome, evVars >>
    /\ UNCHANGED << delayLeft, nowSec, mqttConnected, adc_dc_offset, files,
                    calRuns, sinceReturn, mqttOut, filename, buffer, recI,
                    heapLive >>
    /\ UNCHANGED calVars
    /\ UNCHANGED << auxVars, usVars >>

\* isRecording = false;  // Unlock      delay(2000);  // Avoid retrigger
Unlock ==
    /\ pc = "L_unlock" /\ delayLeft = 0
    /\ isRecording' = FALSE
    /\ sinceReturn' = 0
    /\ mqttOut' = NoAlert
    /\ delayLeft' = COOLDOWN_MS
    /\ pc' = "L_cooldown"
    /\ UNCHANGED << nowSec, mqttConnected, adc_dc_offset, adc_value, files,
                    events, calRuns, polls, outcome, httpResp >>
    /\ UNCHANGED << calVars, recVars, evVars >>
    /\ captured' = NoBuffer
    /\ UNCHANGED << mounted, usVars >>

\* mutant of AfterCooldown: the offset is calibrated again after every event
RecalibrateAfterCooldown == "S_cal_begin"

\* where loop() continues when the cooldown delay is over
AfterCooldown == "L_delay"

CooldownDone ==
    /\ pc = "L_cooldown" /\ delayLeft = 0
    /\ pc' = AfterCooldown
    /\ UNCHANGED << delayLeft, nowSec, adc_dc_offset, files, calRuns >>
    /\ UNCHANGED << loopVars, calVars, recVars, evVars, ioVars >>
    /\ UNCHANGED << auxVars, usVars >>

\* delay(1); loop() returns and is called again
LoopDelay ==
    /\ pc = "L_delay" /\ delayLeft = 0
    /\ delayLeft' = LOOP_DELAY_MS
    /\ adc_value' = -1
    /\ outcome' = "none"
    /\ evMallocs' = 0 /\ evReads' = 0 /\ evStores' = 0 /\ evAlerts' = 0
    /\ pc' = "L_top"
    /\ UNCHANGED << nowSec, mqttConnected, isRecording, adc_dc_offset, files,
                    events, calRuns, polls, sinceReturn >>
    /\ UNCHANGED << calVars, recVars, ioVars >>
    /\ UNCHANGED << auxVars, usVars >>

\* ------------------------------------------------------------ recordAndAlert
\* mutant of AfterMalloc: the null check is missing
AfterMallocUnchecked(ok) == "R_sample"

\* mutant of AfterMalloc: a failed allocation is tried again
AfterMallocRetry(ok) == IF ok THEN "R_sample" ELSE "R_entry"

\* where recordAndAlert continues after malloc: on, or return to loop()
AfterMalloc(ok) == IF ok THEN "R_sample" ELSE "L_unlock"
\* micros() at the call on line 195: an ordinary uptime, and an uptime one
\* sampling period and two microseconds short of the 32-bit wrap
MicrosStarts == { Us(5000000), UsSub(TwoTo32, Us(SAMPLING_PERIOD_US + 2)) }

\* microseconds by which one pass of the busy-wait can overshoot the deadline
\* (interrupts, WiFi and flash activity between two reads of micros())
MaxJitterUs == 3
Jitters == { 0, MaxJitterUs }

\* microseconds spent by adc1_get_raw and the store of the sample
AdcReadUs == 1

\* the value micros() returns now
Micros == U32(UsAdd(usStart, elapsedUs))

\* while (micros() < nextSampleTime);  -- an unsigned 32-bit comparison
SpinContinues(now, deadline) == UsLess(now, deadline)

\* nextSampleTime += SAMPLING_PERIOD_US;  -- unsigned 32-bit addition
NextDeadline(deadline) == U32(UsAdd(deadline, Us(SAMPLING_PERIOD_US)))

\* filename from time(nullptr); buffer = malloc(TOTAL_SAMPLES * sizeof(int16_t));
\* if (!buffer) return;  nextSampleTime = micros()
RecordEntry ==
    /\ pc = "R_entry" /\ delayLeft = 0
    /\ adc_value' = -1
    /\ evMallocs' = evMallocs + 1
    /\ \E ok \in BOOLEAN :
         /\ pc' = AfterMalloc(ok)
         /\ IF ok
            THEN /\ buffer' = [k \in 1..TOTAL_SAMPLES |-> UNINIT]
                 /\ heapLive' = heapLive + 1
                 /\ filename' = FileName(nowSec)
                 /\ \E s \in CaptureSignals : signal' = s
                 /\ \E m \in MicrosStarts :
                      /\ usStart' = m
                      /\ nextSampleTime' = m
                 /\ UNCHANGED << outcome, triggerAmplitude >>
            ELSE /\ buffer' = NoBuffer
                 /\ outcome' = "alloc_fail"
                 /\ filename' = NoName
                 /\ triggerAmplitude' = 0
                 /\ UNCHANGED << heapLive, signal, usStart, nextSampleTime >>
    /\ recI' = 0
    /\ UNCHANGED << delayLeft, nowSec, mqttConnected, isRecording,
                    adc_dc_offset, files, events, calRuns, polls, sinceReturn,
                    calI, calSum, evReads, evStores, evAlerts >>
    /\ UNCHANGED ioVars
    /\ UNCHANGED << auxVars, elapsedUs, sampleAt >>

\* mutant of SamplingContinues: the loop stops one round early
SamplingStopsEarly(i) == i < TOTAL_SAMPLES - 1

\* the condition of the sampling loop
SamplingContinues(i) == i < TOTAL_SAMPLES

\* mutant of Scaled: the offset is not subtracted
ScaledNoOffset(raw, offset) == Int16(raw * GAIN_FACTOR)

\* buffer[i] = (raw - adc_dc_offset) * GAIN_FACTOR, stored as int16_t
Scaled(raw, offset) == Int16((raw - offset) * GAIN_FACTOR)

\* whole seconds in a time below MaxSec seconds, given as a pair as above
WholeSec(a) == (a[1] * Limb + a[2]) \div 1000000

\* the wall clock after a busy-wait that took the capture from `before' to
\* `after' microseconds since its start; c is the second boundary the start
\* of the capture may have been short of.  At MaxSec seconds or more into the
\* capture the clock is at MaxSec.
ClockAfterWait(before, after, c) ==
    IF UsLess(after, Us(MaxSec * 1000000))
    THEN Min(MaxSec, nowSec + (WholeSec(after) - WholeSec(before)) + c)
    ELSE MaxSec

\* line 198: one stretch of the busy-wait, from a read of micros() that is
\* below nextSampleTime to the first read that is not below it any more
SpinWait ==
    /\ pc = "R_sample" /\ delayLeft = 0
    /\ SamplingContinues(recI)
    /\ SpinContinues(Micros, nextSampleTime)
    /\ \E j \in (IF UsLess(elapsedUs, TwoTo32) THEN Jitters ELSE { 0 }) :
         LET waited == UsAdd(UsSub(nextSampleTime, Micros), Us(j)) IN
         /\ elapsedUs' = UsAdd(elapsedUs, waited)
         /\ \E c \in (IF recI = 1 THEN { 0, 1 } ELSE { 0 }) :
              nowSec' = ClockAfterWait(elapsedUs, elapsedUs', c)
    /\ UNCHANGED << pc, delayLeft, adc_dc_offset, files, calRuns, signal,
                    calI, calSum, triggerAmplitude, filename, heapLive,
                    buffer, recI >>
    /\ UNCHANGED << loopVars, evVars, ioVars >>
    /\ UNCHANGED << auxVars, usStart, nextSampleTime, sampleAt >>

\* lines 198-201: the busy-wait has ended; advance the deadline, read the ADC
\* and store the scaled sample
Sample ==
    /\ pc = "R_sample" /\ delayLeft = 0
    /\ SamplingContinues(recI)
    /\ ~SpinContinues(Micros, nextSampleTime)
    /\ nextSampleTime' = NextDeadline(nextSampleTime)
    /\ sampleAt' = elapsedUs
    /\ elapsedUs' = UsAdd(elapsedUs, Us(AdcReadUs))
    /\ buffer' = [buffer EXCEPT ![recI + 1] =
                    Scaled(Wave(signal, recI), adc_dc_offset)]
    /\ recI' = recI + 1
    /\ evReads' = evReads + 1
    /\ UNCHANGED << pc, delayLeft, adc_dc_offset, files, calRuns, signal,
                    calI, calSum, triggerAmplitude, filename, heapLive,
                    evMallocs, evStores, evAlerts >>
    /\ UNCHANGED << loopVars, ioVars >>
    /\ UNCHANGED << auxVars, usStart, nowSec >>

\* mutant of HeapAfterFree: the block is not released
HeapAfterFreeLeak(h) == h

\* the samples file.write stores when it accepts n of them
Written(b, n) == SubSeq(b, 1, n)

\* free(p) on the count of live capture buffers
HeapAfterFree(h) == h - 1

\* mutant of AfterOpen: the opened file is closed without the write
AfterOpenNoWrite(ok) == IF ok THEN "R_free" ELSE "L_unlock"

\* where recordAndAlert continues after SPIFFS.open(filename, "w")
AfterOpen(ok) == IF ok THEN "R_write" ELSE "L_unlock"

\* File file = SPIFFS.open(filename, "w"); if (!file) { free(buffer); return; }
OpenFile ==
    /\ pc = "R_sample" /\ delayLeft = 0
    /\ ~SamplingContinues(recI)
    /\ \E ok \in BOOLEAN :
         /\ pc' = AfterOpen(ok)
         /\ IF ok
            THEN /\ files' = [n \in DOMAIN files \cup {filename} |->
                                IF n = filename THEN <<>> ELSE files[n]]
                 /\ UNCHANGED << buffer, heapLive, outcome, filename,
                                 triggerAmplitude, signal, recI >>
            ELSE /\ buffer' = NoBuffer
                 /\ heapLive' = HeapAfterFree(heapLive)
                 /\ outcome' = "open_fail"
                 /\ filename' = NoName
                 /\ triggerAmplitude' = 0
                 /\ signal' = NoSignal
                 /\ recI' = 0
                 /\ UNCHANGED files
    /\ UNCHANGED << delayLeft, nowSec, mqttConnected, isRecording,
                    adc_dc_offset, adc_value, events, calRuns, polls,
                    sinceReturn, calI, calSum >>
    /\ UNCHANGED << evVars, ioVars >>
    /\ captured' = buffer
    /\ usStart' = Us(0) /\ elapsedUs' = Us(0) /\ nextSampleTime' = Us(0)
    /\ sampleAt' = NoSampleYet
    /\ UNCHANGED mounted

\* file.write((const uint8_t*)buffer, TOTAL_SAMPLES * sizeof(int16_t)); file.close()
WriteFile ==
    /\ pc = "R_write" /\ delayLeft = 0
    /\ \E n \in WriteCounts :
         files' = [files EXCEPT ![filename] = Written(buffer, n)]
    /\ evStores' = evStores + 1
    /\ pc' = "R_free"
    /\ UNCHANGED << delayLeft, nowSec, adc_dc_offset, calRuns,
                    evMallocs, evReads, evAlerts >>
    /\ UNCHANGED << loopVars, calVars, recVars, ioVars >>
    /\ UNCHANGED << auxVars, usVars >>

\* mutant of AfterFree: recordAndAlert returns without publishing
AfterFreeNoAlert == "L_unlock"

\* where recordAndAlert continues after file.close() and free(buffer)
AfterFree == "R_publish"

\* free(buffer)
FreeBuffer ==
    /\ pc = "R_free" /\ delayLeft = 0
    /\ buffer' = NoBuffer
    /\ heapLive' = HeapAfterFree(heapLive)
    /\ recI' = 0
    /\ signal' = NoSignal
    /\ pc' = AfterFree
    /\ UNCHANGED << delayLeft, nowSec, adc_dc_offset, files, calRuns,
                    calI, calSum, triggerAmplitude, filename >>
    /\ UNCHANGED << loopVars, evVars, ioVars >>
    /\ UNCHANGED << auxVars, usVars >>

\* where recordAndAlert continues after publishMqttAlert: it returns
AfterPublish == "L_unlock"

\* publishMqttAlert(filename, (float)triggerAmplitude / 2048.0); return
Publish ==
    /\ pc = "R_publish" /\ delayLeft = 0
    /\ \E ok \in (IF mqttConnected THEN BOOLEAN ELSE {FALSE}) :
         mqttOut' = [sent |-> TRUE, file |-> filename,
                     num |-> triggerAmplitude, den |-> AMPLITUDE_SCALE,
                     ok |-> ok]
    /\ evAlerts' = evAlerts + 1
    /\ outcome' = "stored"
    /\ filename' = NoName
    /\ triggerAmplitude' = 0
    /\ pc' = AfterPublish
    /\ UNCHANGED << delayLeft, nowSec, mqttConnected, isRecording,
                    adc_dc_offset, adc_value, files, events, calRuns, polls,
                    sinceReturn, httpResp, buffer, recI, heapLive,
                    evMallocs, evReads, evStores >>
    /\ UNCHANGED calVars
    /\ UNCHANGED << auxVars, usVars >>

\* ------------------------------------------------------------ specification
Step ==
    \/ Tick
    \/ Boot
    \/ ConnectWiFi
    \/ InitTime
    \/ SetupWebServer
    \/ MountSPIFFS
    \/ Halt
    \/ ClearOldRecordings
    \/ CalibrateBegin
    \/ CalibrateSample
    \/ CalibrateEnd
    \/ Ready
    \/ LoopTop
    \/ ConnectMQTT
    \/ MqttLoop
    \/ HandleClient
    \/ Poll
    \/ RecordEntry
    \/ SpinWait
    \/ Sample
    \/ OpenFile
    \/ WriteFile
    \/ FreeBuffer
    \/ Publish
    \/ Unlock
    \/ CooldownDone
    \/ LoopDelay

Next == Step \/ BrokerDrop

Spec == Init /\ [][Next]_vars

\* The sketch is the only thread of the core and the clock runs: a step of
\* the sketch that can be taken is taken.  Nothing obliges the broker.
LiveSpec == Init /\ [][Next]_vars /\ WF_vars(Step)

\* ------------------------------------------------------------ pipeline view
\* The state of the event pipeline, read off the position of the sketch.
PipelineState ==
    IF pc = "S_halt" THEN "Halted"
    ELSE IF pc \in {"S_cal_begin", "S_cal", "S_cal_done"} THEN "Calibrating"
    ELSE IF pc \in SetupPcs THEN "Idle"
    ELSE IF pc \in RecordPcs \cup {"L_unlock"} THEN "Capturing"
    ELSE IF pc = "L_cooldown" THEN "Cooldown"
    ELSE "Armed"

\* every slot of the sequence holds a stored sample
Filled(b) == \A k \in 1..Len(b) : b[k] # UNINIT

\* ------------------------------------------------------------ claims
\* C1: a poll of the idle loop starts a capture exactly when the sample
\* differs from adc_dc_offset by more than 500; a sample that differs by
\* exactly 500 starts none, and the pipeline stays Armed.
C1_TriggerIffAboveThreshold ==
    [][ (pc = "L_poll" /\ pc' # "L_poll") =>
          /\ adc_value' \in 0..4095
          /\ (pc' = "R_entry") <=>
                 (\/ adc_value' - adc_dc_offset > 500
                  \/ adc_dc_offset - adc_value' > 500)
          /\ (pc' = "R_entry") =>
                 /\ isRecording'
                 /\ PipelineState' = "Capturing"
          /\ (pc' # "R_entry") =>
                 /\ pc' = "L_delay"
                 /\ ~isRecording'
                 /\ buffer' = NoBuffer
                 /\ PipelineState' = "Armed" ]_vars

\* C1 witness: a poll has read a sample exactly 500 away from the offset
\* and has gone on without a capture.
C1_Witness_Boundary ==
    /\ pc = "L_delay"
    /\ adc_value # -1
    /\ Abs(adc_value - adc_dc_offset) = 500
    /\ ~isRecording

\* C2: at most one capture buffer exists; a trigger allocates at most one;
\* isRecording is set from the call of recordAndAlert until the buffer has
\* been stored, announced and freed; while it is set the loop does not poll.
C2_SingleCapture ==
    /\ heapLive <= 1
    /\ (heapLive = 1) <=> (buffer # NoBuffer)
    /\ evMallocs <= 1
    /\ (pc \in RecordPcs \cup {"L_unlock"}) => isRecording
    /\ (buffer # NoBuffer) => (isRecording /\ pc \in RecordPcs)
    /\ isRecording => (pc \in RecordPcs \cup {"L_unlock"})
    /\ (pc = "L_unlock") => (buffer = NoBuffer /\ heapLive = 0)

\* C2 witness: the second capture holds its buffer, the flag set.
C2_Witness_SecondCapture ==
    /\ pc = "R_write"
    /\ events = 2
    /\ heapLive = 1
    /\ isRecording

\* C3: whenever the sampling loop is left, recI is SAMPLE_RATE *
\* RECORD_DURATION_SECONDS, that many ADC readings were taken and every
\* slot of the buffer holds a sample, whatever the trigger amplitude.
C3_FullBuffer ==
    [][ (pc = "R_sample" /\ pc' # "R_sample") =>
          /\ recI = SAMPLE_RATE * RECORD_DURATION_SECONDS
          /\ evReads = SAMPLE_RATE * RECORD_DURATION_SECONDS
          /\ Len(buffer) = SAMPLE_RATE * RECORD_DURATION_SECONDS
          /\ Filled(buffer) ]_vars

\* C3 witness: a full buffer is about to be written, after a trigger of
\* amplitude 552.
C3_Witness_Full ==
    /\ pc = "R_write"
    /\ triggerAmplitude = 552
    /\ Len(buffer) = TOTAL_SAMPLES
    /\ Filled(buffer)

\* C4: while fewer than 2000 ms have passed since recordAndAlert returned
\* and the flag was cleared, the sketch sits in the cooldown delay: it
\* reads no sample for a trigger and starts no capture.
C4_Cooldown ==
    (sinceReturn >= 0 /\ sinceReturn < 2000) =>
        /\ pc = "L_cooldown"
        /\ adc_value = -1
        /\ ~isRecording
        /\ buffer = NoBuffer

\* C4 witness: the middle of a cooldown.
C4_Witness_MidCooldown ==
    /\ pc = "L_cooldown"
    /\ sinceReturn > 0
    /\ sinceReturn < 2000
    /\ delayLeft > 0

\* C5 as claimed: when recordAndAlert returns, exactly one alert has been
\* published for the trigger.
C5_ExactlyOneAlert ==
    (pc = "L_unlock") => (evAlerts = 1)

\* C5 amended: never more than one alert per trigger; when recordAndAlert
\* returns, exactly one if the buffer was allocated and the file opened
\* (then the file was written once), none if malloc or SPIFFS.open failed.
C5_AlertUnlessFailed ==
    /\ evAlerts <= 1
    /\ (pc \in {"L_unlock", "L_cooldown"}) =>
          /\ evAlerts = (IF outcome \in {"alloc_fail", "open_fail"} THEN 0 ELSE 1)
          /\ evStores = evAlerts

\* C5 witness: recordAndAlert returns after one alert.
C5_Witness_Alerted ==
    /\ pc = "L_unlock"
    /\ outcome = "stored"
    /\ evAlerts = 1
    /\ mqttOut.sent

\* C6: recordAndAlert is left only to the unlock; the unlock clears
\* isRecording and starts the 2000 ms cooldown; the cooldown is left only
\* after 2000 ms and to Armed; a trigger calls malloc once.
C6_AlwaysCooldown ==
    [][ /\ (pc \in RecordPcs /\ pc' \notin RecordPcs) =>
              /\ pc' = "L_unlock"
              /\ outcome' \in {"stored", "alloc_fail", "open_fail"}
        /\ (pc = "L_unlock" /\ pc' # pc) =>
              /\ pc' = "L_cooldown"
              /\ ~isRecording'
              /\ delayLeft' = 2000
        /\ (pc = "L_cooldown" /\ pc' # pc) =>
              /\ sinceReturn >= 2000
              /\ PipelineState' = "Armed"
              /\ ~isRecording'
        /\ evMallocs' <= 1 ]_vars

\* C6 witness: Armed again after a failed SPIFFS.open and the cooldown.
C6_Witness_ArmedAfterOpenFail ==
    /\ pc = "L_delay"
    /\ outcome = "open_fail"
    /\ sinceReturn = 2000
    /\ ~isRecording

\* a failure has just happened
Failure ==
    \/ outcome \in {"alloc_fail", "open_fail"}
    \/ (mqttOut.sent /\ ~mqttOut.ok)
    \/ (pc \notin SetupPcs /\ ~mqttConnected)

\* C7: after an allocation, storage or publish failure or a broker
\* disconnection, the loop comes to serve web requests and poll again.
C7_StaysResponsive ==
    Failure ~> (pc = "L_poll")

\* C8: after a failed malloc no sample was read, nothing was written, no
\* alert was published; the buffer handed to file.write is complete, no
\* recording holds an unwritten slot, and an alert follows a full capture.
C8_AllocFailNoCapture ==
    /\ (outcome = "alloc_fail") =>
          /\ evReads = 0
          /\ evStores = 0
          /\ evAlerts = 0
          /\ buffer = NoBuffer
          /\ ~mqttOut.sent
          /\ pc \in {"L_unlock", "L_cooldown", "L_delay"}
    /\ (pc \in {"R_write", "R_free"}) =>
          (Len(buffer) = TOTAL_SAMPLES /\ Filled(buffer))
    /\ (pc \notin SetupPcs) =>
          \A n \in DOMAIN files :
              IsRecordingName(n) => Filled(files[n])
    /\ mqttOut.sent => (evStores = 1 /\ evReads = TOTAL_SAMPLES)

\* C8 witness: in the cooldown after a failed malloc.
C8_Witness_AllocFailed ==
    /\ pc = "L_cooldown"
    /\ outcome = "alloc_fail"
    /\ evMallocs = 1

\* C9: calibrateDCOffset runs once, in setup(), before the first poll;
\* once loop() runs adc_dc_offset is not written.
C9_CalibratedOnce ==
    [][ /\ calRuns' <= 1
        /\ (pc' \notin SetupPcs) => (calRuns' = 1)
        /\ polls' => (calRuns' = 1)
        /\ (pc \notin SetupPcs) =>
              (adc_dc_offset' = adc_dc_offset /\ calRuns' = calRuns) ]_vars

\* C9 witness: two events later the loop polls on, one calibration done.
C9_Witness_AfterEvents ==
    /\ pc = "L_delay"
    /\ polls
    /\ events = 2
    /\ sinceReturn = 2000
    /\ calRuns = 1

\* C10 as claimed: the offset is the mean of the 1024 samples rounded to
\* the nearest integer.
C10_RoundedMean ==
    (pc = "S_cal_done") =>
        /\ calI = 1024
        /\ 2 * 1024 * adc_dc_offset <= 2 * calSum + 1024
        /\ 2 * calSum + 1024 < 2 * 1024 * (adc_dc_offset + 1)

\* C10 amended: the offset is the mean of the 1024 samples truncated to an
\* integer (the largest integer not above the mean).
C10_TruncatedMean ==
    (pc = "S_cal_done") =>
        /\ calI = 1024
        /\ 1024 * adc_dc_offset <= calSum
        /\ calSum < 1024 * (adc_dc_offset + 1)

\* C10 witness: calibration has ended on samples whose mean is no integer.
C10_Witness_Fraction ==
    /\ pc = "S_cal_done"
    /\ calSum % 1024 # 0
    /\ calRuns = 1

\* C11: every element stored so far in a capture buffer is (raw - adc_dc_offset)
\* * 8 of the reading taken at its index, reduced modulo 2^16 into the
\* signed 16-bit range.
C11_ScaledSamples ==
    (buffer # NoBuffer) =>
        \A k \in 1..recI :
            buffer[k] =
                ((((Wave(signal, k - 1) - adc_dc_offset) * 8) + 32768) % 65536)
                    - 32768

\* C11 witness: with offset 2048 the reading 2600 has been stored as 4416.
C11_Witness_Scaled ==
    /\ pc = "R_write"
    /\ adc_dc_offset = 2048
    /\ Wave(signal, 0) = 2600
    /\ buffer[1] = 4416

\* C12: when an alert has announced a file name, a download of that name
\* through the web server's file handler returns exactly the TOTAL_SAMPLES
\* samples the capture left in the buffer.
C12_RoundTrip ==
    mqttOut.sent =>
        /\ Respond(<<"get", mqttOut.file>>).code = 200
        /\ Len(Respond(<<"get", mqttOut.file>>).body) = TOTAL_SAMPLES
        /\ Respond(<<"get", mqttOut.file>>).body = captured

\* C13: once SPIFFS.begin has failed the sketch stays in the halt loop: it
\* has not calibrated and never does, never polls, never starts a capture.
C13_HaltOnMountFailure ==
    (mounted = "failed") =>
        /\ pc = "S_halt"
        /\ PipelineState = "Halted"
        /\ calRuns = 0
        /\ adc_dc_offset = 0
        /\ ~polls
        /\ events = 0
        /\ ~isRecording
        /\ buffer = NoBuffer

\* C13 witness: the halt loop is in its delay after a failed mount.
C13_Witness_Halted ==
    /\ mounted = "failed"
    /\ pc = "S_halt"
    /\ delayLeft > 0

\* ---------------------------------------------------------------- C14
\* C14: sampling is deadline-driven.  Each time a sample is taken the next
\* deadline is the previous one advanced by exactly SAMPLING_PERIOD_US (it is
\* not re-anchored to the time of the read), the sample is taken less than one
\* period after the ideal instant start + index * SAMPLING_PERIOD_US, and it
\* is taken strictly later than the sample before it and stored at the next
\* index.
C14_DeadlineDriven ==
    [][ (pc = "R_sample" /\ recI' = recI + 1) =>
            /\ nextSampleTime' =
                   U32(UsAdd(usStart, UsTimes(recI + 1, Us(SAMPLING_PERIOD_US))))
            /\ UsLess(sampleAt, sampleAt')
            /\ UsLess(sampleAt',
                      UsTimes(recI + 1, Us(SAMPLING_PERIOD_US)))
            /\ \A k \in 1..recI : buffer'[k] = buffer[k]
      ]_vars

\* ---------------------------------------------------------------- C17
\* C17: every sample is taken at or after its deadline, the ideal instant
\* start + index * SAMPLING_PERIOD_US, also when micros() or nextSampleTime
\* wraps around 2^32 during the capture.
C17_NeverEarly ==
    (pc = "R_sample" /\ recI > 0) =>
        ~UsLess(sampleAt, UsTimes(recI - 1, Us(SAMPLING_PERIOD_US)))

\* ---------------------------------------------------------------- C15
\* C15: handoff ordering.  The buffer is written to the file while no alert
\* has been published for the trigger and with the contents it had when the
\* sampling loop ended; the alert is published after the write, names the
\* file that was written, and that file holds samples of that buffer; both
\* happen while isRecording is set, and when the flag is cleared after a
\* stored capture the write and the alert are done and the cooldown begins;
\* from the end of the sampling loop to free(buffer) the buffer is unchanged.
C15_HandoffOrder ==
    [][ /\ (evStores' > evStores) =>
              /\ evAlerts = 0
              /\ ~mqttOut.sent
              /\ isRecording
              /\ buffer = captured
              /\ files'[filename] = SubSeq(captured, 1, Len(files'[filename]))
        /\ (evAlerts' > evAlerts) =>
              /\ evStores = 1
              /\ isRecording
              /\ mqttOut'.file = filename
              /\ filename \in DOMAIN files
              /\ files[filename] = SubSeq(captured, 1, Len(files[filename]))
        /\ (isRecording /\ ~isRecording') =>
              /\ (evReads = TOTAL_SAMPLES) =>
                     outcome \in {"stored", "open_fail"}
              /\ (outcome = "stored") =>
                     (evStores = 1 /\ evAlerts = 1 /\ mqttOut.sent)
              /\ buffer = NoBuffer
              /\ PipelineState' = "Cooldown"
        /\ (pc \in {"R_write", "R_free"}) =>
              /\ buffer = captured
              /\ buffer' \in {buffer, NoBuffer}
              /\ (buffer' = NoBuffer) => (pc = "R_free")
      ]_vars

\* C15 witness: recordAndAlert has returned after the write and the alert
\* naming the written file, the flag still set.
C15_Witness_HandedOff ==
    /\ pc = "L_unlock"
    /\ isRecording
    /\ evStores = 1
    /\ mqttOut.sent
    /\ mqttOut.file \in DOMAIN files
    /\ Len(captured) = TOTAL_SAMPLES

\* ---------------------------------------------------------------- C16
\* C16: the calibrated offset lies in 0..4095, and for every 12-bit reading
\* raw in 0..4095 the product (raw - adc_dc_offset) * GAIN_FACTOR, with
\* GAIN_FACTOR 8, lies in -32768..32767, so the int16_t the sketch stores is
\* the exact product; every element of a capture buffer is the exact product
\* for its reading.
C16_NoWrap ==
    /\ (pc = "S_cal_done") =>
          /\ adc_dc_offset \in 0..4095
          /\ \A raw \in 0..4095 :
                /\ (raw - adc_dc_offset) * GAIN_FACTOR \in -32768..32767
                /\ Scaled(raw, adc_dc_offset) =
                       (raw - adc_dc_offset) * GAIN_FACTOR
    /\ (buffer # NoBuffer) =>
          /\ adc_dc_offset \in 0..4095
          /\ \A k \in 1..recI :
                /\ Wave(signal, k - 1) \in 0..4095
                /\ buffer[k] = (Wave(signal, k - 1) - adc_dc_offset) * GAIN_FACTOR
                /\ buffer[k] \in -32768..32767

\* C16 witness: with offset 0 the reading 4095 has been stored as 32760, the
\* largest product there is.
C16_Witness_Extreme ==
    /\ pc = "R_write"
    /\ adc_dc_offset = 0
    /\ \E k \in 1..TOTAL_SAMPLES :
          Wave(signal, k - 1) = 4095 /\ buffer[k] = 32760

\* ---------------------------------------------------------------- C18
\* C18: a capture buffer that was allocated is released exactly once before
\* recordAndAlert returns, after the write and after a failed SPIFFS.open
\* alike: a release frees the one live buffer, recordAndAlert is left with
\* none live, and while the pipeline is Armed or in Cooldown none is
\* allocated, whatever events came before.
C18_BufferReleased ==
    [][ /\ heapLive' \in {0, 1}
        /\ (heapLive' > heapLive) =>
              (pc = "R_entry" /\ heapLive = 0 /\ buffer' # NoBuffer)
        /\ (heapLive' < heapLive) =>
              /\ heapLive = 1
              /\ buffer # NoBuffer
              /\ buffer' = NoBuffer
              /\ pc \in {"R_sample", "R_free"}
        /\ (pc \in RecordPcs /\ pc' \notin RecordPcs) =>
              (heapLive' = 0 /\ buffer' = NoBuffer)
        /\ (PipelineState' \in {"Armed", "Cooldown"}) =>
              (heapLive' = 0 /\ buffer' = NoBuffer)
      ]_vars

\* C18 witness: in the cooldown of the second event, after a stored capture,
\* no buffer is allocated.
C18_Witness_NoneLive ==
    /\ pc = "L_cooldown"
    /\ events = 2
    /\ outcome = "stored"
    /\ heapLive = 0

\* ---------------------------------------------------------------- C19
\* C19: with a wall clock that does not go back, a successful SPIFFS.open
\* for a capture never truncates a recording stored since boot: every
\* recording on the flash carries an earlier second in its name than the
\* file being opened, and the open leaves every other file as it was.
C19_NoOverwrite ==
    [][ /\ nowSec' >= nowSec
        /\ (pc = "R_sample" /\ pc' = "R_write") =>
              /\ IsRecordingName(filename)
              /\ filename \notin DOMAIN files
              /\ \A n \in DOMAIN files :
                    /\ IsRecordingName(n) => n[2] < filename[2]
                    /\ files'[n] = files[n]
              /\ DOMAIN files' = DOMAIN files \cup {filename}
        /\ (pc = "R_write" /\ pc' # pc) =>
              \A n \in DOMAIN files : (n # filename) => files'[n] = files[n]
      ]_vars

\* C19 witness: the file of the second capture is open while the recording
\* of the first is on the flash under another name.
C19_Witness_TwoRecordings ==
    /\ pc = "R_write"
    /\ events = 2
    /\ filename \in DOMAIN files
    /\ \E n \in DOMAIN files :
          /\ IsRecordingName(n)
          /\ n # filename
          /\ Len(files[n]) >= TOTAL_SAMPLES - 1
====
